---------------------------- MODULE Spec2Model ----------------------------
(***************************************************************************)
(* Download Organizer (src/main.py): files of one directory are moved into *)
(* sub-folders chosen by their extension.                                  *)
(*                                                                         *)
(* Strings are modelled as sequences of one-character strings, so that     *)
(* lower(), upper(), lstrip('.'), Path.suffix, Path.stem and the f-string  *)
(* of get_unique_filename are computed character by character.             *)
(*                                                                         *)
(* The file system is a record                                             *)
(*   kind : "missing" | "file" | "dir"   what download_path points to      *)
(*   root : name -> content              the regular files directly in it  *)
(*   dirs : name -> (name -> content)    its sub-directories and the       *)
(*                                       regular files in each             *)
(* The content of a file is the path it had before the run, which gives    *)
(* every file an identity that survives a move.                            *)
(***************************************************************************)
EXTENDS Integers, Sequences, FiniteSets, TLC

VARIABLES run, twin, call

vars == <<run, twin, call>>

---------------------------------------------------------------------------
(* str.lower / str.upper / str.lstrip / str(int)                           *)

LowerLetters ==
    << "a","b","c","d","e","f","g","h","i","j","k","l","m",
       "n","o","p","q","r","s","t","u","v","w","x","y","z" >>

UpperLetters ==
    << "A","B","C","D","E","F","G","H","I","J","K","L","M",
       "N","O","P","Q","R","S","T","U","V","W","X","Y","Z" >>

DigitChars == << "0","1","2","3","4","5","6","7","8","9" >>

LowerChar(c) ==
    IF \E i \in 1..26 : UpperLetters[i] = c
    THEN LowerLetters[CHOOSE i \in 1..26 : UpperLetters[i] = c]
    ELSE c

UpperChar(c) ==
    IF \E i \in 1..26 : LowerLetters[i] = c
    THEN UpperLetters[CHOOSE i \in 1..26 : LowerLetters[i] = c]
    ELSE c

RECURSIVE lower(_)
lower(s) == IF s = <<>> THEN <<>> ELSE << LowerChar(Head(s)) >> \o lower(Tail(s))

RECURSIVE upper(_)
upper(s) == IF s = <<>> THEN <<>> ELSE << UpperChar(Head(s)) >> \o upper(Tail(s))

RECURSIVE lstrip_dot(_)
lstrip_dot(s) ==
    IF s # <<>> /\ Head(s) = "." THEN lstrip_dot(Tail(s)) ELSE s

RECURSIVE str_int(_)
str_int(n) ==
    IF n < 10 THEN << DigitChars[n + 1] >>
    ELSE str_int(n \div 10) \o << DigitChars[(n % 10) + 1] >>

---------------------------------------------------------------------------
(* pathlib: PurePath.suffix and PurePath.stem of a final path component    *)

\* str.rfind('.') + 1, or 0 when the name holds no dot
rfind_dot(name) ==
    IF \E i \in 1..Len(name) : name[i] = "."
    THEN CHOOSE i \in 1..Len(name) :
            name[i] = "." /\ \A j \in (i+1)..Len(name) : name[j] # "."
    ELSE 0

\* faulty variant of suffix: everything from the first dot on
suffix_first_dot(name) ==
    LET i == IF \E k \in 1..Len(name) : name[k] = "."
             THEN CHOOSE k \in 1..Len(name) :
                     name[k] = "." /\ \A j \in 1..(k-1) : name[j] # "."
             ELSE 0
    IN  IF 1 < i /\ i < Len(name) THEN SubSeq(name, i, Len(name)) ELSE <<>>

suffix(name) ==
    LET i == rfind_dot(name)
    IN  IF 1 < i /\ i < Len(name) THEN SubSeq(name, i, Len(name)) ELSE <<>>

stem(name) ==
    LET i == rfind_dot(name)
    IN  IF 1 < i /\ i < Len(name) THEN SubSeq(name, 1, i - 1) ELSE name

---------------------------------------------------------------------------
(* FILE_CATEGORIES, in the order the dictionary is written and iterated    *)

FILE_CATEGORIES ==
    << [category   |-> <<"B","i","l","d","e","r">>,
        extensions |-> { <<"j","p","g">>, <<"j","p","e","g">>, <<"p","n","g">>,
                         <<"g","i","f">>, <<"b","m","p">>, <<"s","v","g">>,
                         <<"w","e","b","p">>, <<"i","c","o">> }],
       [category   |-> <<"D","o","k","u","m","e","n","t","e">>,
        extensions |-> { <<"p","d","f">>, <<"d","o","c">>, <<"d","o","c","x">>,
                         <<"t","x","t">>, <<"o","d","t">>, <<"r","t","f">>,
                         <<"t","e","x">>, <<"m","d">> }],
       [category   |-> <<"T","a","b","e","l","l","e","n">>,
        extensions |-> { <<"x","l","s">>, <<"x","l","s","x">>, <<"c","s","v">>,
                         <<"o","d","s">> }],
       [category   |-> <<"P","r","ä","s","e","n","t","a","t","i","o","n","e","n">>,
        extensions |-> { <<"p","p","t">>, <<"p","p","t","x">>, <<"o","d","p">> }],
       [category   |-> <<"V","i","d","e","o","s">>,
        extensions |-> { <<"m","p","4">>, <<"a","v","i">>, <<"m","k","v">>,
                         <<"m","o","v">>, <<"w","m","v">>, <<"f","l","v">>,
                         <<"w","e","b","m">> }],
       [category   |-> <<"A","u","d","i","o">>,
        extensions |-> { <<"m","p","3">>, <<"w","a","v">>, <<"f","l","a","c">>,
                         <<"a","a","c">>, <<"o","g","g">>, <<"m","4","a">>,
                         <<"w","m","a">> }],
       [category   |-> <<"A","r","c","h","i","v","e">>,
        extensions |-> { <<"z","i","p">>, <<"r","a","r">>, <<"7","z">>,
                         <<"t","a","r">>, <<"g","z">>, <<"b","z","2">>,
                         <<"x","z">> }],
       [category   |-> <<"P","r","o","g","r","a","m","m","e">>,
        extensions |-> { <<"e","x","e">>, <<"m","s","i">>, <<"d","m","g">>,
                         <<"p","k","g">>, <<"d","e","b">>, <<"r","p","m">>,
                         <<"A","p","p","I","m","a","g","e">> }],
       [category   |-> <<"C","o","d","e">>,
        extensions |-> { <<"p","y">>, <<"j","s">>, <<"j","a","v","a">>, <<"c">>,
                         <<"c","p","p">>, <<"h">>, <<"c","s">>, <<"p","h","p">>,
                         <<"r","b">>, <<"g","o">>, <<"r","s">>,
                         <<"h","t","m","l">>, <<"c","s","s">> }] >>

\* the for loop of get_category_for_extension from table row i on
RECURSIVE category_from(_, _, _)
category_from(ext, ext_lower, i) ==
    IF i > Len(FILE_CATEGORIES) THEN upper(ext)
    ELSE IF ext_lower \in FILE_CATEGORIES[i].extensions
         THEN FILE_CATEGORIES[i].category
         ELSE category_from(ext, ext_lower, i + 1)

get_category_for_extension(ext) == category_from(ext, lower(ext), 1)

---------------------------------------------------------------------------
(* get_unique_filename.  existing: the names that exist in the parent      *)
(* directory of target_path; target: the final component of target_path.   *)

numbered(base, counter, ext) == base \o <<"_">> \o str_int(counter) \o ext

RECURSIVE first_free(_, _, _, _)
first_free(existing, base, ext, counter) ==
    LET new_path == numbered(base, counter, ext)
    IN  IF new_path \notin existing THEN new_path
        ELSE first_free(existing, base, ext, counter + 1)

\* faulty variant of get_unique_filename: the counter starts at 0
unique_from_zero(existing, target) ==
    IF target \notin existing THEN target
    ELSE first_free(existing, stem(target), suffix(target), 0)

\* faulty variant of get_unique_filename: _1 is taken without looking
unique_no_loop(existing, target) ==
    IF target \notin existing THEN target
    ELSE numbered(stem(target), 1, suffix(target))

get_unique_filename(existing, target) ==
    IF target \notin existing THEN target
    ELSE first_free(existing, stem(target), suffix(target), 1)

---------------------------------------------------------------------------
(* The file system calls organize_downloads makes                          *)

EmptyDir == [n \in {} |-> <<>>]

\* Path.exists() of download_dir / folder_name
path_exists(fs, folder_name) ==
    folder_name \in DOMAIN fs.dirs \/ folder_name \in DOMAIN fs.root

\* the names inside download_dir / folder_name (none unless it is a directory)
listing(fs, folder_name) ==
    IF folder_name \in DOMAIN fs.dirs THEN DOMAIN fs.dirs[folder_name] ELSE {}

\* Path.exists() of download_dir / folder_name / name
file_exists(fs, folder_name, name) == name \in listing(fs, folder_name)

\* faulty variant of is_file: true of sub-directories too
is_file_any_entry(fs, name) == name \in DOMAIN fs.root \/ name \in DOMAIN fs.dirs

\* Path.is_file() of download_dir / name
is_file(fs, name) == name \in DOMAIN fs.root

\* os.listdir(download_dir), as a set
entries(fs) == DOMAIN fs.root \cup DOMAIN fs.dirs

\* Path.mkdir of download_dir / folder_name, when it succeeds
mkdir(fs, folder_name) ==
    [fs EXCEPT !.dirs = (folder_name :> EmptyDir) @@ @]

\* shutil.move raises when the destination's parent is not a directory
move_raises(fs, item, folder_name) ==
    item \notin DOMAIN fs.root \/ folder_name \notin DOMAIN fs.dirs

\* shutil.move(download_dir/item, download_dir/folder_name/name), when it
\* succeeds: os.rename, which replaces a regular file at the destination
shutil_move(fs, item, folder_name, name) ==
    [fs EXCEPT
        !.root = [n \in (DOMAIN @) \ {item} |-> @[n]],
        !.dirs = [@ EXCEPT ![folder_name] = (name :> fs.root[item]) @@ @]]

---------------------------------------------------------------------------
(* organize_downloads                                                      *)

Line(level, event, item, folder, name, moved, skipped) ==
    [level |-> level, event |-> event, item |-> item, folder |-> folder,
     name |-> name, moved |-> moved, skipped |-> skipped]

Note(level, event) == Line(level, event, <<>>, <<>>, <<>>, 0, 0)

\* the state of one call of organize_downloads before its first statement
StartRun(fs, use_categories, dry_run) ==
    [pc |-> "Start", fs |-> fs, fs0 |-> fs,
     use_categories |-> use_categories, dry_run |-> dry_run,
     listed |-> FALSE, todo |-> <<>>,
     files_moved |-> 0, files_skipped |-> 0, log |-> <<>>]

\* line 84
resolve_path(st) == [st EXCEPT !.pc = "ValidatingPath"]

\* faulty variant of path_valid: is_dir() is not asked
path_valid_exists_only(fs) == fs.kind # "missing"

\* lines 86 and 90: exists() and is_dir()
path_valid(fs) == fs.kind = "dir"

\* lines 86-99
validate_path(st) ==
    IF ~path_valid(st.fs)
    THEN [st EXCEPT
            !.pc = "Aborted",
            !.log = Append(@, Note("error",
                      IF st.fs.kind = "missing" THEN "path_missing"
                                                ELSE "not_a_directory"))]
    ELSE [st EXCEPT
            !.pc = "Scanning",
            !.files_moved = 0,
            !.files_skipped = 0,
            !.log = IF st.dry_run
                    THEN @ \o << Note("info", "organizing"),
                                 Note("info", "dry_run_banner") >>
                    ELSE Append(@, Note("info", "organizing"))]

\* lines 145-147: the handler of the outer try
unexpected_error(st) ==
    [st EXCEPT !.pc = "Aborted",
               !.log = Append(@, Note("error", "unexpected_error"))]

\* line 102, download_dir.iterdir(): os.listdir in the order `order`, or
\* an OSError
iterdir(st, order, oserror) ==
    IF oserror \/ st.fs.kind # "dir" THEN unexpected_error(st)
    ELSE [st EXCEPT !.listed = TRUE, !.todo = order]

\* faulty variant of create_folder: dry_run is not asked
create_folder_always(dry_run, exists) == ~exists

\* line 123
create_folder(dry_run, exists) == ~dry_run /\ ~exists

\* line 114-118
folder_for(item, use_categories) ==
    LET ext == lstrip_dot(suffix(item))
    IN  IF use_categories THEN get_category_for_extension(ext) ELSE upper(ext)

\* lines 103-143: one iteration of the loop, on the first entry left.
\* oserror: the call the operating system refuses in this iteration,
\* "mkdir", "move" or "none"
organize_entry(st, oserror) ==
    LET item == Head(st.todo)
        next == [st EXCEPT !.todo = Tail(@)]
    IN  IF ~is_file(st.fs, item) THEN next
        ELSE IF suffix(item) = <<>>
        THEN [next EXCEPT !.files_skipped = @ + 1]
        ELSE
          LET folder_name == folder_for(item, st.use_categories)
              create == create_folder(st.dry_run, path_exists(st.fs, folder_name))
          IN  IF create /\ oserror = "mkdir" THEN unexpected_error(st)
              ELSE
                LET fs1 == IF create THEN mkdir(st.fs, folder_name) ELSE st.fs
                    log1 == IF create
                            THEN Append(st.log, Line("info", "folder_created",
                                        <<>>, folder_name, <<>>, 0, 0))
                            ELSE st.log
                    conflict == file_exists(fs1, folder_name, item)
                    target == IF conflict
                              THEN get_unique_filename(listing(fs1, folder_name), item)
                              ELSE item
                    log2 == IF conflict
                            THEN Append(log1, Line("warning", "conflict_renamed",
                                        <<>>, <<>>, target, 0, 0))
                            ELSE log1
                IN  IF st.dry_run
                    THEN [next EXCEPT
                            !.fs = fs1,
                            !.log = Append(log2, Line("info", "dry_run_move",
                                        item, folder_name, target, 0, 0)),
                            !.files_moved = @ + 1]
                    ELSE IF oserror = "move" \/ move_raises(fs1, item, folder_name)
                    THEN [next EXCEPT
                            !.fs = fs1,
                            !.log = Append(log2, Line("error", "move_error",
                                        item, <<>>, <<>>, 0, 0)),
                            !.files_skipped = @ + 1]
                    ELSE [next EXCEPT
                            !.fs = shutil_move(fs1, item, folder_name, target),
                            !.log = Append(log2, Line("info", "moved",
                                        item, folder_name, target, 0, 0)),
                            !.files_moved = @ + 1]

\* the loop is exhausted: control reaches line 149
end_of_loop(st) == [st EXCEPT !.pc = "Reporting"]

\* faulty variant of report_tally: the run ends without the tally line
report_nothing(st) == [st EXCEPT !.pc = "Done"]

\* line 149
report_tally(st) ==
    [st EXCEPT
        !.pc = "Done",
        !.log = Append(@, Line("info", "tally", <<>>, <<>>, <<>>,
                               st.files_moved, st.files_skipped))]

---------------------------------------------------------------------------
(* The directories the runs start from                                     *)

\* the most entries (files and sub-directories) the directory holds at first
MaxEntries == 3
\* the most files its sub-directories hold at first
MaxSeeded == 2
\* the numbered names target_1 .. target_MaxCounter that may already exist
MaxCounter == 10

a_txt == <<"a",".","t","x","t">>
a_1_txt == <<"a","_","1",".","t","x","t">>
archive_tar_gz == <<"a","r","c","h","i","v","e",".","t","a","r",".","g","z">>
x_log == <<"x",".","l","o","g">>
README == <<"R","E","A","D","M","E">>
LOG == <<"L","O","G">>
report_pdf == <<"r","e","p","o","r","t",".","p","d","f">>
Dokumente == <<"D","o","k","u","m","e","n","t","e">>
Archive == <<"A","r","c","h","i","v","e">>
GZ == <<"G","Z">>

\* regular files that may lie in the directory: with a known extension,
\* with an unknown one, and with none (LOG is also the folder of x.log)
RootFileNames == {a_txt, a_1_txt, archive_tar_gz, x_log, README, LOG}

\* sub-directories that may exist before the run
SubDirNames == {Dokumente, Archive}

\* files that may lie in a sub-directory before the run
SeedPaths ==
    { <<Dokumente, a_txt>>, <<Dokumente, a_1_txt>>, <<Archive, archive_tar_gz>> }

Tree(files, subdirs, seeded) ==
    [kind |-> "dir",
     root |-> [n \in files |-> <<n>>],
     dirs |-> [d \in subdirs |->
                 [n \in {p[2] : p \in {q \in seeded : q[1] = d}} |-> <<d, n>>]]]

NoTree(kind) == [kind |-> kind, root |-> EmptyDir, dirs |-> EmptyDir]

InitialTrees ==
    { Tree(F, D, P) :
        <<F, D, P>> \in
          { t \in (SUBSET RootFileNames) \X (SUBSET SubDirNames) \X (SUBSET SeedPaths) :
              /\ Cardinality(t[1]) + Cardinality(t[2]) <= MaxEntries
              /\ Cardinality(t[3]) <= MaxSeeded
              /\ \A p \in t[3] : p[1] \in t[2] } }
    \cup { NoTree("missing"), NoTree("file") }

\* every order in which os.listdir may return the names S
RECURSIVE Orders(_)
Orders(S) ==
    IF S = {} THEN { <<>> }
    ELSE UNION { { <<x>> \o o : o \in Orders(S \ {x}) } : x \in S }

IdleRun == [pc |-> "Idle"]

NoCall == [fn |-> "none"]

---------------------------------------------------------------------------
(* Spec: one call of organize_downloads                                    *)

Init ==
    /\ \E fs \in InitialTrees, use_categories \in BOOLEAN, dry_run \in BOOLEAN :
          run = StartRun(fs, use_categories, dry_run)
    /\ twin = IdleRun
    /\ call = NoCall

HasEntry(st) == st.pc = "Scanning" /\ st.listed /\ st.todo # <<>>

IsCandidate(st) ==
    /\ HasEntry(st)
    /\ is_file(st.fs, Head(st.todo))
    /\ suffix(Head(st.todo)) # <<>>

ResolvePath ==
    /\ run.pc = "Start"
    /\ run' = resolve_path(run)
    /\ UNCHANGED <<twin, call>>

ValidatePath ==
    /\ run.pc = "ValidatingPath"
    /\ run' = validate_path(run)
    /\ UNCHANGED <<twin, call>>

ListDirectory ==
    /\ run.pc = "Scanning" /\ ~run.listed
    /\ \E order \in Orders(entries(run.fs)) : run' = iterdir(run, order, FALSE)
    /\ UNCHANGED <<twin, call>>

ListDirectoryFails ==
    /\ run.pc = "Scanning" /\ ~run.listed
    /\ run' = iterdir(run, <<>>, TRUE)
    /\ UNCHANGED <<twin, call>>

SkipEntry ==
    /\ HasEntry(run) /\ ~IsCandidate(run)
    /\ run' = organize_entry(run, "none")
    /\ UNCHANGED <<twin, call>>

OrganizeFile ==
    /\ IsCandidate(run)
    /\ run' = organize_entry(run, "none")
    /\ UNCHANGED <<twin, call>>

MkdirFails ==
    /\ IsCandidate(run)
    /\ create_folder(run.dry_run,
         path_exists(run.fs, folder_for(Head(run.todo), run.use_categories)))
    /\ run' = organize_entry(run, "mkdir")
    /\ UNCHANGED <<twin, call>>

MoveFails ==
    /\ IsCandidate(run)
    /\ ~run.dry_run
    /\ run' = organize_entry(run, "move")
    /\ UNCHANGED <<twin, call>>

EndOfLoop ==
    /\ run.pc = "Scanning" /\ run.listed /\ run.todo = <<>>
    /\ run' = end_of_loop(run)
    /\ UNCHANGED <<twin, call>>

ReportTally ==
    /\ run.pc = "Reporting"
    /\ run' = report_tally(run)
    /\ UNCHANGED <<twin, call>>

Next ==
    \/ ResolvePath
    \/ ValidatePath
    \/ ListDirectory
    \/ ListDirectoryFails
    \/ SkipEntry
    \/ OrganizeFile
    \/ MkdirFails
    \/ MoveFails
    \/ EndOfLoop
    \/ ReportTally

Spec == Init /\ [][Next]_vars

---------------------------------------------------------------------------
(* PairSpec: a real run (run) and a dry run (twin) of organize_downloads   *)
(* over the same directory, listed in the same order, with no call refused *)
(* by the operating system                                                 *)

PairInit ==
    /\ \E fs \in InitialTrees, use_categories \in BOOLEAN :
          /\ run = StartRun(fs, use_categories, FALSE)
          /\ twin = StartRun(fs, use_categories, TRUE)
    /\ call = NoCall

PairResolvePath ==
    /\ run.pc = "Start" /\ twin.pc = "Start"
    /\ run' = resolve_path(run)
    /\ twin' = resolve_path(twin)
    /\ UNCHANGED call

PairValidatePath ==
    /\ run.pc = "ValidatingPath" /\ twin.pc = "ValidatingPath"
    /\ run' = validate_path(run)
    /\ twin' = validate_path(twin)
    /\ UNCHANGED call

PairListDirectory ==
    /\ run.pc = "Scanning" /\ ~run.listed
    /\ twin.pc = "Scanning" /\ ~twin.listed
    /\ \E order \in Orders(entries(run.fs)) :
          /\ run' = iterdir(run, order, FALSE)
          /\ twin' = iterdir(twin, order, FALSE)
    /\ UNCHANGED call

PairOrganizeEntry ==
    /\ HasEntry(run) /\ HasEntry(twin)
    /\ run' = organize_entry(run, "none")
    /\ twin' = organize_entry(twin, "none")
    /\ UNCHANGED call

PairEndOfLoop ==
    /\ run.pc = "Scanning" /\ run.listed /\ run.todo = <<>>
    /\ twin.pc = "Scanning" /\ twin.listed /\ twin.todo = <<>>
    /\ run' = end_of_loop(run)
    /\ twin' = end_of_loop(twin)
    /\ UNCHANGED call

PairReportTally ==
    /\ run.pc = "Reporting" /\ twin.pc = "Reporting"
    /\ run' = report_tally(run)
    /\ twin' = report_tally(twin)
    /\ UNCHANGED call

PairNext ==
    \/ PairResolvePath
    \/ PairValidatePath
    \/ PairListDirectory
    \/ PairOrganizeEntry
    \/ PairEndOfLoop
    \/ PairReportTally

PairSpec == PairInit /\ [][PairNext]_vars

---------------------------------------------------------------------------
(* FnSpec: one call of get_category_for_extension or get_unique_filename  *)

\* every spelling of s in upper and lower case
RECURSIVE CaseVariants(_)
CaseVariants(s) ==
    IF s = <<>> THEN { <<>> }
    ELSE { <<c>> \o v : c \in {LowerChar(Head(s)), UpperChar(Head(s))},
                        v \in CaseVariants(Tail(s)) }

TableExtensions ==
    UNION { FILE_CATEGORIES[i].extensions : i \in 1..Len(FILE_CATEGORIES) }

ExtensionInputs ==
    UNION { CaseVariants(e) : e \in TableExtensions \cup { <<"l","o","g">> } }

UniqueTargets == {report_pdf, archive_tar_gz, README}

NumberedNames(target) ==
    { numbered(stem(target), k, suffix(target)) : k \in 1..MaxCounter }

FnInit ==
    /\ run = IdleRun
    /\ twin = IdleRun
    /\ \/ \E ext \in ExtensionInputs :
            call = [fn |-> "get_category_for_extension", ext |-> ext,
                    existing |-> {}, target |-> <<>>,
                    returned |-> FALSE, result |-> <<>>]
       \/ \E target \in UniqueTargets :
          \E existing \in SUBSET ({target} \cup NumberedNames(target)) :
            call = [fn |-> "get_unique_filename", ext |-> <<>>,
                    existing |-> existing, target |-> target,
                    returned |-> FALSE, result |-> <<>>]

CallCategory ==
    /\ call.fn = "get_category_for_extension" /\ ~call.returned
    /\ call' = [call EXCEPT !.returned = TRUE,
                            !.result = get_category_for_extension(call.ext)]
    /\ UNCHANGED <<run, twin>>

CallUnique ==
    /\ call.fn = "get_unique_filename" /\ ~call.returned
    /\ call' = [call EXCEPT !.returned = TRUE,
                            !.result = get_unique_filename(call.existing, call.target)]
    /\ UNCHANGED <<run, twin>>

FnNext == CallCategory \/ CallUnique

FnSpec == FnInit /\ [][FnNext]_vars

---------------------------------------------------------------------------
(* Properties                                                              *)

Lines(st, event) == { i \in 1..Len(st.log) : st.log[i].event = event }

\* the destinations a run logged under `event`, in the order it logged them
RECURSIVE Destinations(_, _)
Destinations(log, event) ==
    IF log = <<>> THEN <<>>
    ELSE (IF Head(log).event = event
          THEN << <<Head(log).item, Head(log).folder, Head(log).name>> >>
          ELSE <<>>) \o Destinations(Tail(log), event)

TallyReported(st) ==
    \E i \in Lines(st, "tally") :
        /\ st.log[i].moved = st.files_moved
        /\ st.log[i].skipped = st.files_skipped

InExactlyOneCategory(e) ==
    Cardinality({ i \in 1..Len(FILE_CATEGORIES) :
                    e \in FILE_CATEGORIES[i].extensions }) = 1

\* C1: for every extension listed in exactly one category, every upper/lower
\* case spelling of it is mapped to that category by
\* get_category_for_extension.
C1_CaseInsensitiveLookup ==
    (call.fn = "get_category_for_extension" /\ call.returned) =>
        \A i \in 1..Len(FILE_CATEGORIES) :
        \A e \in FILE_CATEGORIES[i].extensions :
            (InExactlyOneCategory(e) /\ call.ext \in CaseVariants(e))
                => call.result = FILE_CATEGORIES[i].category

\* C2: a dry run reports, for each file with an extension, the destination
\* (folder and final name) the real run over the same directory in the same
\* order moves it to, and ends with the same moved and skipped counts.
C2_DryRunMatchesRealRun ==
    (run.pc = "Done" /\ twin.pc = "Done") =>
        /\ Destinations(twin.log, "dry_run_move") = Destinations(run.log, "moved")
        /\ twin.files_moved = run.files_moved
        /\ twin.files_skipped = run.files_skipped

\* C3: in a real run a failure while handling one entry (creating its folder
\* or moving it) never aborts the run: the run is not aborted once the
\* directory is listed, and when it is done it has handled every entry,
\* counting each regular file as moved or as skipped.
C3_EntryFailureNeverAborts ==
    (~run.dry_run /\ run.listed) =>
        /\ run.pc # "Aborted"
        /\ run.pc = "Done" =>
             /\ run.todo = <<>>
             /\ run.files_moved + run.files_skipped
                  = Cardinality(DOMAIN run.fs0.root)

\* C4 as stated: every run that passed path validation and has ended has
\* reported the tally of its counters, also when the scan was cut short.
C4_TallyAlwaysReported ==
    (run.fs0.kind = "dir" /\ run.pc \in {"Done", "Aborted"}) => TallyReported(run)

\* the guards of the actions of Next: each action's next state is a function
\* of the current one, so a step can be taken exactly where a guard holds
CanStep(st) ==
    \/ st.pc = "Start"
    \/ st.pc = "ValidatingPath"
    \/ st.pc = "Scanning" /\ ~st.listed
    \/ HasEntry(st)
    \/ st.pc = "Scanning" /\ st.listed /\ st.todo = <<>>
    \/ st.pc = "Reporting"

\* C4, amended: a run that passed path validation runs to an end (before
\* its end it always has a next step), and at its end either every entry was
\* handled and the last line reported is the tally of the counters, or the
\* scan was cut short by an error, the last line reported is that error and
\* no tally is reported.
C4_TallyUnlessCutShort ==
    run.fs0.kind = "dir" =>
        /\ run.pc \notin {"Done", "Aborted"} => CanStep(run)
        /\ run.pc = "Done" =>
             /\ run.listed /\ run.todo = <<>>
             /\ run.log[Len(run.log)] =
                  Line("info", "tally", <<>>, <<>>, <<>>,
                       run.files_moved, run.files_skipped)
        /\ run.pc = "Aborted" =>
             /\ run.log[Len(run.log)] = Note("error", "unexpected_error")
             /\ Lines(run, "tally") = {}

C4_Witness ==
    /\ run.pc = "Done"
    /\ TallyReported(run)
    /\ run.files_moved >= 1
    /\ run.files_skipped >= 1
    /\ Lines(run, "move_error") # {}

report_1_pdf == <<"r","e","p","o","r","t","_","1",".","p","d","f">>
report_2_pdf == <<"r","e","p","o","r","t","_","2",".","p","d","f">>

\* C5: get_unique_filename returns the target when nothing exists at it,
\* otherwise <base>_k<ext> for the smallest k >= 1 at which nothing exists
\* (report_2.pdf when report.pdf and report_1.pdf exist); what it returns
\* never exists.
C5_UniqueFilename ==
    (call.fn = "get_unique_filename" /\ call.returned) =>
        LET E == call.existing
            t == call.target
            r == call.result
            nth(k) == stem(t) \o <<"_">> \o str_int(k) \o suffix(t)
        IN  /\ r \notin E
            /\ t \notin E => r = t
            /\ t \in E =>
                 \E k \in 1..(Cardinality(E) + 1) :
                    /\ r = nth(k)
                    /\ \A j \in 1..(k - 1) : nth(j) \in E
            /\ (t = report_pdf /\ E = {report_pdf, report_1_pdf})
                 => r = report_2_pdf

C5_Witness ==
    /\ call.fn = "get_unique_filename" /\ call.returned
    /\ call.target = report_pdf
    /\ call.existing = {report_pdf, report_1_pdf}
    /\ call.result = report_2_pdf

\* C6: a dry run leaves the file system as it found it: no directory is
\* created and no file is moved, renamed or removed.
C6_DryRunLeavesFilesystem ==
    run.dry_run => run.fs = run.fs0

C6_Witness ==
    /\ run.dry_run
    /\ run.pc = "Done"
    /\ \E i \in Lines(run, "dry_run_move") :
          ~path_exists(run.fs0, run.log[i].folder)
    /\ Lines(run, "conflict_renamed") # {}

archive_tar_1_gz ==
    <<"a","r","c","h","i","v","e",".","t","a","r","_","1",".","g","z">>

ArchiveLines(st) ==
    { i \in Lines(st, "moved") \cup Lines(st, "dry_run_move") :
        st.log[i].item = archive_tar_gz }

C8_InvalidPathAborts ==
    run.fs0.kind # "dir" =>
        /\ run.pc \in {"Start", "ValidatingPath", "Aborted"}
        /\ ~run.listed /\ run.todo = <<>>
        /\ run.fs = run.fs0
        /\ run.files_moved = 0 /\ run.files_skipped = 0
        /\ run.log = IF run.pc # "Aborted" THEN <<>>
                     ELSE << Note("error", IF run.fs0.kind = "missing"
                                           THEN "path_missing"
                                           ELSE "not_a_directory") >>

C8_Witness ==
    /\ run.fs0.kind = "file"
    /\ run.pc = "Aborted"
    /\ run.log = << Note("error", "not_a_directory") >>

Extensionless(name) == \A i \in 1..Len(name) : name[i] # "."

\* C9: a real run over a directory holding only sub-directories and N
\* regular files without extension moves nothing, creates no folder, leaves
\* every entry in place and, when done, has skipped N (sub-directories
\* change no counter).
C9_OnlyFoldersAndExtensionless ==
    (/\ ~run.dry_run
     /\ run.fs0.kind = "dir"
     /\ \A n \in DOMAIN run.fs0.root : Extensionless(n)) =>
        /\ run.fs = run.fs0
        /\ run.files_moved = 0
        /\ run.files_skipped <= Cardinality(DOMAIN run.fs0.root)
        /\ run.pc = "Done" =>
             /\ run.files_skipped = Cardinality(DOMAIN run.fs0.root)
             /\ run.log[Len(run.log)] =
                  Line("info", "tally", <<>>, <<>>, <<>>, 0,
                       Cardinality(DOMAIN run.fs0.root))

C9_Witness ==
    /\ ~run.dry_run
    /\ run.pc = "Done"
    /\ DOMAIN run.fs0.root = {README, LOG}
    /\ DOMAIN run.fs0.dirs # {}
    /\ run.files_skipped = 2 /\ run.files_moved = 0

\* the paths at which the file that was at path c before the run is now
Places(fs, c) ==
    { <<n>> : n \in { m \in DOMAIN fs.root : fs.root[m] = c } }
    \cup UNION { { <<d, n>> : n \in { m \in DOMAIN fs.dirs[d] : fs.dirs[d][m] = c } } :
                 d \in DOMAIN fs.dirs }

FilesBefore(st) ==
    { <<n>> : n \in DOMAIN st.fs0.root }
    \cup UNION { { <<d, n>> : n \in DOMAIN st.fs0.dirs[d] } : d \in DOMAIN st.fs0.dirs }

NothingLost(st) ==
    \A c \in FilesBefore(st) :
        \/ Places(st.fs, c) = {c}
        \/ /\ Len(c) = 1
           /\ \E i \in Lines(st, "moved") :
                /\ st.log[i].item = c[1]
                /\ Places(st.fs, c) = { <<st.log[i].folder, st.log[i].name>> }

\* a step leaves what is at every path that existed before it, or removes it
\* from the root: nothing is put where something was
NothingReplaced(old, new) ==
    /\ \A n \in DOMAIN new.root : n \in DOMAIN old.root /\ new.root[n] = old.root[n]
    /\ \A d \in DOMAIN old.dirs :
          /\ d \in DOMAIN new.dirs
          /\ \A n \in DOMAIN old.dirs[d] :
                n \in DOMAIN new.dirs[d] /\ new.dirs[d][n] = old.dirs[d][n]

\* C10: a real run never overwrites or loses a file: every file that existed
\* before the run is at exactly one path, its own or the destination chosen
\* for it, and every move puts its file at a path where nothing was, also
\* when the suffixed name chosen for one file is the name of a later one.
C10_NothingLostOrOverwritten ==
    /\ [](~run.dry_run => NothingLost(run))
    /\ [][~run.dry_run => NothingReplaced(run.fs, run'.fs)]_vars

a_1_1_txt == <<"a","_","1","_","1",".","t","x","t">>

C10_Witness ==
    /\ ~run.dry_run /\ run.use_categories
    /\ run.pc = "Done"
    /\ Dokumente \in DOMAIN run.fs.dirs
    /\ DOMAIN run.fs.dirs[Dokumente] = {a_txt, a_1_txt, a_1_1_txt}
    /\ run.fs.dirs[Dokumente][a_txt] = <<Dokumente, a_txt>>
    /\ run.fs.dirs[Dokumente][a_1_txt] = <<a_txt>>
    /\ run.fs.dirs[Dokumente][a_1_1_txt] = <<a_1_txt>>

=============================================================================
